---------------------------- MODULE Spec2Model ----------------------------
(***************************************************************************)
(* Model of the Mandelbrot WebGL viewer (src/public/mandelbrot.js, latest  *)
(* revision, lines 499-1036): the fragment shader's per-pixel escape-time  *)
(* evaluation and the view controller (mouse, touch, wheel, sliders,       *)
(* reset, resize) that drives it.                                          *)
(*                                                                         *)
(* Numbers are exact rationals [t |-> "num", n, d] (d > 0, lowest terms).  *)
(* JavaScript's NaN, undefined and numeric strings ("str": the string that *)
(* spells n/d) are values of the same record shape with another tag.       *)
(***************************************************************************)
EXTENDS Integers

(***************************************************************************)
(* Bounds of the model.                                                    *)
(***************************************************************************)
\* shader: view origins are the integer points of [-MaxOrigin, MaxOrigin]^2
MaxOrigin == 1
\* shader: aspect ratios 1..MaxAspect
MaxAspect == 2
\* shader: iteration caps 1..MaxIterGrid on the pixel grid
MaxIterGrid == 3
\* shader: escape values k/2 for k in 1..MaxEscHalves
MaxEscHalves == 4
\* controller: input events handled in one run
MaxEvents == 3
\* controller: wheel deltas -MaxDelta..MaxDelta
MaxDelta == 2
\* controller: fingers on the screen at once
MaxTouches == 2
\* shader: a cap is compared with the caps up to MaxMoreIter above it
MaxMoreIter == 2

(***************************************************************************)
(* Values and arithmetic.                                                  *)
(***************************************************************************)
Abs(a) == IF a < 0 THEN -a ELSE a

RECURSIVE GCD(_, _)
GCD(a, b) == IF b = 0 THEN a ELSE GCD(b, a % b)

\* the number n/d (d # 0), in lowest terms with a positive denominator
Num(n, d) ==
    LET s == IF d < 0 THEN -1 ELSE 1
        g == GCD(Abs(n), Abs(d))
    IN  [t |-> "num", n |-> (s * n) \div g, d |-> (s * d) \div g]

NaN == [t |-> "nan", n |-> 0, d |-> 1]
Undefined == [t |-> "undef", n |-> 0, d |-> 1]

IsNum(a) == a.t = "num"

\* a + b on numbers; NaN if either operand is NaN
Add(a, b) ==
    IF ~IsNum(a) \/ ~IsNum(b) THEN NaN
    ELSE LET g == GCD(a.d, b.d)
         IN  Num(a.n * (b.d \div g) + b.n * (a.d \div g), (a.d \div g) * b.d)

Neg(a) == IF ~IsNum(a) THEN NaN ELSE Num(-a.n, a.d)

Sub(a, b) == Add(a, Neg(b))

\* a * b, cross-reduced before multiplying
Mul(a, b) ==
    IF ~IsNum(a) \/ ~IsNum(b) THEN NaN
    ELSE LET g1 == GCD(Abs(a.n), b.d)
             g2 == GCD(Abs(b.n), a.d)
         IN  Num((a.n \div g1) * (b.n \div g2), (a.d \div g2) * (b.d \div g1))

\* a / b for b # 0
Div(a, b) ==
    IF ~IsNum(a) \/ ~IsNum(b) THEN NaN
    ELSE Mul(a, Num(b.d, b.n))

\* a < b; every comparison with NaN is false
Lt(a, b) == IsNum(a) /\ IsNum(b) /\ a.n * b.d < b.n * a.d

Gt(a, b) == Lt(b, a)

\* sqrt(s) > e for s >= 0, decided without extracting the root
SqrtGt(s, e) == Lt(e, Num(0, 1)) \/ Gt(s, Mul(e, e))

(***************************************************************************)
(* State.                                                                  *)
(***************************************************************************)
VARIABLES
    \* uniforms of the shader program (a GL uniform is 0 until it is set)
    uRealAspectRatio, uViewOrigin, uViewRange, uMaxIterations, uEscapeValue,
    \* one invocation of the fragment shader
    pc,             \* "idle", "main", "loop", "colour", "done"
    vTextureCoord,  \* the pixel's normalised coordinate (u, v)
    c_real, c_imaginary, z_real, z_imaginary,
    i, iter,
    updates,        \* applications of z <- z^2 + c made so far
    gl_FragColor,
    \* the view state of the script
    viewOrigin, viewRange, moveFactor, maxIter, escapeVal, aspectRatio,
    \* pointer state of the script
    down, mouseX, mouseY, touchesDist,
    touchesSum,     \* |x0 - x1| + |y0 - y1| of the two fingers when touchesDist was set
    \* the page: displayed canvas size and the settings panel's controls
    clientWidth, clientHeight, iterSlider, iterLabel, escapeSlider, escapeLabel,
    \* the environment: fingers on the screen, whether window.onload has fired
    nTouches, loaded,
    drew,           \* the last handler drew a frame
    lastEvent,      \* the event handled last
    preView,        \* the view state that handler started from
    lastInput,      \* what that handler panned by and zoomed with
    events,         \* input events handled so far
    \* the script's start: how far its top-level code has run, the handles it
    \* got from WebGL, and the alerts shown
    stage,          \* "initGL", "vertexShader", "fragmentShader", "linkProgram",
                    \* "programInfo", "listening", "aborted"
    gl,             \* "none", "context", "undefined"
    vertexShader, fragmentShader,   \* "none", "shader", "null"
    shaderProgram,  \* "none", "program", "null"
    alerts,
    \* the camera of the earlier revision (lines 1-498), which moves a camera
    \* over the quad instead of the view over the plane
    camera, cameraSpeed

uniforms == <<uRealAspectRatio, uViewOrigin, uViewRange, uMaxIterations, uEscapeValue>>
fragment == <<pc, vTextureCoord, c_real, c_imaginary, z_real, z_imaginary,
              i, iter, updates, gl_FragColor>>
view == <<viewOrigin, viewRange, moveFactor, maxIter, escapeVal>>
pointer == <<down, mouseX, mouseY, touchesDist, touchesSum>>
canvasSize == <<clientWidth, clientHeight>>
gui == <<iterSlider, iterLabel, escapeSlider, escapeLabel>>
startup == <<stage, gl, vertexShader, fragmentShader, shaderProgram, alerts>>
cameraState == <<camera, cameraSpeed>>
session == <<view, aspectRatio, pointer, canvasSize, gui, nTouches, loaded,
             drew, lastEvent, preView, lastInput, events, cameraState>>
controller == <<view, aspectRatio, pointer, canvasSize, gui, nTouches, loaded,
                drew, lastEvent, preView, lastInput, events, startup,
                cameraState>>
vars == <<uniforms, fragment, controller>>

Zero == Num(0, 1)
NoColour == <<Zero, Zero, Zero, Zero>>

(***************************************************************************)
(* Fragment shader (fsSource).                                             *)
(***************************************************************************)
\* the loop's compile-time trip count: for(int i = 0; i < 1000; i++)
LoopLimit == 1000

\* vec2 c = uViewOrigin + ((uv - vec2(0.5)) * (uViewRange)), one component
MapComponent(origin, t, range) == Add(origin, Mul(Sub(t, Num(1, 2)), range))

\* c_real = c[0] * uRealAspectRatio
MapReal(origin, t, range, aspect) == Mul(MapComponent(origin, t, range), aspect)

\* c_imaginary = c[1]
MapImaginary(origin, t, range) == MapComponent(origin, t, range)

\* the head of main(): coordinate mapping and the loop's initialisation
ShaderMain ==
    /\ pc = "main"
    /\ c_real' = MapReal(uViewOrigin.x, vTextureCoord.u, uViewRange, uRealAspectRatio)
    /\ c_imaginary' = MapImaginary(uViewOrigin.y, vTextureCoord.v, uViewRange)
    /\ z_real' = Zero
    /\ z_imaginary' = Zero
    /\ iter' = 0
    /\ i' = 0
    /\ pc' = "loop"
    /\ UNCHANGED <<uniforms, vTextureCoord, updates, gl_FragColor, controller>>

\* the loop leaves before its body: i < 1000 fails, or if(i > uMaxIterations) break
LoopExits(k, maxIterations) == ~(k < LoopLimit) \/ k > maxIterations

\* float nr = z_real * z_real - z_imaginary * z_imaginary + c_real
NextReal(zr, zi, cr) == Add(Sub(Mul(zr, zr), Mul(zi, zi)), cr)

\* float ni = 2.0 * z_real * z_imaginary + c_imaginary
NextImaginary(zr, zi, ci) == Add(Mul(Mul(Num(2, 1), zr), zi), ci)

\* an escape test that also fires on the threshold itself
EscapedNonStrict(zr, zi, escape) ==
    ~Lt(Add(Mul(zr, zr), Mul(zi, zi)), Mul(escape, escape))

\* sqrt(z_real*z_real + z_imaginary*z_imaginary) > uEscapeValue
Escaped(zr, zi, escape) == SqrtGt(Add(Mul(zr, zr), Mul(zi, zi)), escape)

\* a loop that stores the index of every pass, escaped or not
IterAfterAlwaysStores(escaped, k, it) == k

\* a loop that stores the count of passes made instead of the index
IterAfterStoresCount(escaped, k, it) == IF escaped THEN k + 1 ELSE it

\* a loop that stores the index of every pass that does not escape and
\* clears it on escape
IterAfterInverted(escaped, k, it) == IF escaped THEN 0 ELSE k

\* if(escaped){ iter = i; break; }: iter after a pass at index k
IterAfter(escaped, k, it) == IF escaped THEN k ELSE it

\* one pass through the for loop, from its test to its increment or break
ShaderLoop ==
    /\ pc = "loop"
    /\ IF LoopExits(i, uMaxIterations)
       THEN /\ pc' = "colour"
            /\ UNCHANGED <<z_real, z_imaginary, i, iter, updates>>
       ELSE LET nr == NextReal(z_real, z_imaginary, c_real)
                ni == NextImaginary(z_real, z_imaginary, c_imaginary)
                escaped == Escaped(nr, ni, uEscapeValue)
            IN  /\ z_real' = nr
                /\ z_imaginary' = ni
                /\ updates' = updates + 1
                /\ iter' = IterAfter(escaped, i, iter)
                /\ i' = IF escaped THEN i ELSE i + 1
                /\ pc' = IF escaped THEN "colour" ELSE "loop"
    /\ UNCHANGED <<uniforms, vTextureCoord, c_real, c_imaginary, gl_FragColor,
                   controller>>

\* the for loop as a function: iter when the loop is entered at index k with
\* z = (zr, zi) and iter = it, for the point (cr, ci)
RECURSIVE LoopFrom(_, _, _, _, _, _, _, _)
LoopFrom(zr, zi, k, it, cr, ci, escape, maxIterations) ==
    IF LoopExits(k, maxIterations)
    THEN it
    ELSE LET nr == NextReal(zr, zi, cr)
             ni == NextImaginary(zr, zi, ci)
             escaped == Escaped(nr, ni, escape)
         IN  IF escaped
             THEN IterAfter(escaped, k, it)
             ELSE LoopFrom(nr, ni, k + 1, IterAfter(escaped, k, it), cr, ci,
                           escape, maxIterations)

\* iter at the end of main()'s loop for the point (cr, ci): z = 0, iter = 0
\* and i = 0 on entry
EscapeTime(cr, ci, escape, maxIterations) ==
    LoopFrom(Zero, Zero, 0, 0, cr, ci, escape, maxIterations)

\* a ramp without its 0.1 offset
LevelNoOffset(it, maxIterations) ==
    Mul(Div(Num(it, 1), Num(maxIterations, 1)), Num(8, 10))

\* float level = float(iter) / float(uMaxIterations) * 0.8 + 0.1
Level(it, maxIterations) ==
    Add(Mul(Div(Num(it, 1), Num(maxIterations, 1)), Num(8, 10)), Num(1, 10))

\* gl_FragColor = vec4(level, level * 0.6, 0.1, 1.0)
FragColor(level) == <<level, Mul(level, Num(6, 10)), Num(1, 10), Num(1, 1)>>

ShaderColour ==
    /\ pc = "colour"
    /\ gl_FragColor' = FragColor(Level(iter, uMaxIterations))
    /\ pc' = "done"
    /\ UNCHANGED <<uniforms, vTextureCoord, c_real, c_imaginary, z_real,
                   z_imaginary, i, iter, updates, controller>>

(***************************************************************************)
(* Script constants and JavaScript conversions.                            *)
(***************************************************************************)
initMoveFactor == Num(52, 10000)
zoomFactor == Num(11, 10)
initViewOrigin == [x |-> Zero, y |-> Zero]
initViewRange == Num(8, 1)
initMaxIter == Num(40, 1)
initEscapeVal == Num(2, 1)

\* ToNumber: a numeric string converts to its number, undefined to NaN
ToNumber(v) ==
    IF v.t = "num" THEN v
    ELSE IF v.t = "str" THEN Num(v.n, v.d)
    ELSE NaN

\* the integer part of n/d, rounded towards zero
Trunc(n, d) == IF n < 0 THEN -((-n) \div d) ELSE n \div d

\* Number.prototype.toString: the string spelling a finite number
NumberToString(v) == [t |-> "str", n |-> v.n, d |-> v.d]

\* parseInt of a string spelling a number: its integer part
ParseInt(v) == IF v.t = "str" THEN Num(Trunc(v.n, v.d), 1) ELSE NaN

\* the GLint a value passed to gl.uniform1i is converted to
ToGLint(v) == IF v.t \in {"num", "str"} THEN Trunc(v.n, v.d) ELSE 0

\* Math.abs
MathAbs(v) == IF IsNum(v) THEN Num(Abs(v.n), v.d) ELSE NaN

\* pointer coordinates (pageX, pageY) and touch lists of events
Pos == {0, 10}
Point == [pageX : Pos, pageY : Pos]
\* the handlers read touches.length, touches[0] and touches[1] only:
\* a touch list is its length and its first two points
TouchLists(n) == [len : {n}, at : [1..(IF n < 2 THEN n ELSE 2) -> Point]]

\* sizes (clientWidth, clientHeight) the canvas is displayed at
CanvasSizes == {[w |-> 400, h |-> 400], [w |-> 800, h |-> 400], [w |-> 400, h |-> 800]}

\* values the two sliders can be dragged to (the page markup is not among the
\* sources; the ranges are the spec's: iterations 1..1000, escape 0..10 in
\* hundredths)
IterSliderValues == {NumberToString(Num(1000, 1))}
EscapeSliderValues == {NumberToString(Num(0, 1)), NumberToString(Num(150, 1))}

(***************************************************************************)
(* View operations.                                                        *)
(***************************************************************************)
\* translateView(x, y): the new viewOrigin
TranslateView(x, y, origin) == [x |-> Add(origin.x, x), y |-> Add(origin.y, y)]

\* a zoomView whose two directions are not reciprocal: a negative direction
\* scales by 0.9 instead of dividing by zoomFactor
ZoomViewNotReciprocal(direction, range, factor) ==
    IF Lt(direction, Zero)
    THEN [viewRange |-> Mul(range, Num(9, 10)),
          moveFactor |-> [x |-> Mul(factor.x, Num(9, 10)),
                          y |-> Mul(factor.y, Num(9, 10))]]
    ELSE IF Gt(direction, Zero)
    THEN [viewRange |-> Mul(range, zoomFactor),
          moveFactor |-> [x |-> Mul(factor.x, zoomFactor),
                          y |-> Mul(factor.y, zoomFactor)]]
    ELSE [viewRange |-> range, moveFactor |-> factor]

\* a zoomView that scales twice when the delta's magnitude exceeds 1
ZoomViewByMagnitude(direction, range, factor) ==
    LET f == IF Gt(MathAbs(direction), Num(1, 1))
             THEN Mul(zoomFactor, zoomFactor)
             ELSE zoomFactor
    IN  IF Lt(direction, Zero)
        THEN [viewRange |-> Div(range, f),
              moveFactor |-> [x |-> Div(factor.x, f), y |-> Div(factor.y, f)]]
        ELSE IF Gt(direction, Zero)
        THEN [viewRange |-> Mul(range, f),
              moveFactor |-> [x |-> Mul(factor.x, f), y |-> Mul(factor.y, f)]]
        ELSE [viewRange |-> range, moveFactor |-> factor]

\* a zoomView that forgets to scale moveFactor.y
ZoomViewForgetsY(direction, range, factor) ==
    IF Lt(direction, Zero)
    THEN [viewRange |-> Div(range, zoomFactor),
          moveFactor |-> [x |-> Div(factor.x, zoomFactor), y |-> factor.y]]
    ELSE IF Gt(direction, Zero)
    THEN [viewRange |-> Mul(range, zoomFactor),
          moveFactor |-> [x |-> Mul(factor.x, zoomFactor), y |-> factor.y]]
    ELSE [viewRange |-> range, moveFactor |-> factor]

\* zoomView(direction): the new viewRange and moveFactor
ZoomView(direction, range, factor) ==
    IF Lt(direction, Zero)
    THEN [viewRange |-> Div(range, zoomFactor),
          moveFactor |-> [x |-> Div(factor.x, zoomFactor),
                          y |-> Div(factor.y, zoomFactor)]]
    ELSE IF Gt(direction, Zero)
    THEN [viewRange |-> Mul(range, zoomFactor),
          moveFactor |-> [x |-> Mul(factor.x, zoomFactor),
                          y |-> Mul(factor.y, zoomFactor)]]
    ELSE [viewRange |-> range, moveFactor |-> factor]

\* updateCanvasRatio(): gl.canvas.clientWidth / gl.canvas.clientHeight
CanvasRatio(w, h) == Div(Num(w, 1), Num(h, 1))

\* a drawScene that sends the aspect ratio it holds without recomputing it
DrawSceneCachedRatio(w, h, origin, range, iterations, escape) ==
    /\ aspectRatio' = aspectRatio
    /\ uViewOrigin' = origin
    /\ uViewRange' = range
    /\ uMaxIterations' = ToGLint(iterations)
    /\ uEscapeValue' = escape
    /\ uRealAspectRatio' = aspectRatio
    /\ drew' = TRUE

\* drawScene(): recompute the aspect ratio of a w x h canvas, send the
\* uniforms (updateUniforms) and draw the quad
DrawScene(w, h, origin, range, iterations, escape) ==
    /\ aspectRatio' = CanvasRatio(w, h)
    /\ uViewOrigin' = origin
    /\ uViewRange' = range
    /\ uMaxIterations' = ToGLint(iterations)
    /\ uEscapeValue' = escape
    /\ uRealAspectRatio' = CanvasRatio(w, h)
    /\ drew' = TRUE

\* a handler that returns without drawing
NoDraw == drew' = FALSE /\ UNCHANGED <<uniforms, aspectRatio>>

\* a handler that calls neither translateView nor zoomView
NoInput == [tx |-> Zero, ty |-> Zero, direction |-> Zero, spread |-> Zero]

\* the pixel offsets (tx, ty) a handler pans by
Pan(tx, ty) == [tx |-> tx, ty |-> ty, direction |-> Zero, spread |-> Zero]

\* the direction a handler passes to zoomView
Zoom(direction) ==
    [tx |-> Zero, ty |-> Zero, direction |-> direction, spread |-> Zero]

\* the direction a two-finger move passes to zoomView, and by how much the
\* sum of the fingers' two separations grew
Pinch(direction, spread) ==
    [tx |-> Zero, ty |-> Zero, direction |-> direction, spread |-> spread]

\* one more input event is dispatched to its handler, which pans or zooms
\* by `input`
Dispatch(event, input) ==
    /\ stage = "listening"
    /\ events < MaxEvents
    /\ UNCHANGED <<startup, cameraState>>
    /\ events' = events + 1
    /\ lastEvent' = event
    /\ preView' = view
    /\ lastInput' = input

(***************************************************************************)
(* Event handlers.                                                         *)
(***************************************************************************)
\* a resetView that forgets the drag sensitivity
ResetViewKeepsMoveFactor ==
    /\ Dispatch("reset", NoInput)
    /\ viewOrigin' = [x |-> initViewOrigin.x, y |-> initViewOrigin.y]
    /\ viewRange' = initViewRange
    /\ maxIter' = initMaxIter
    /\ escapeVal' = initEscapeVal
    /\ iterSlider' = NumberToString(initMaxIter)
    /\ escapeSlider' = NumberToString(Mul(initEscapeVal, Num(100, 1)))
    /\ iterLabel' = NumberToString(initMaxIter)
    /\ escapeLabel' = NumberToString(initEscapeVal)
    /\ DrawScene(clientWidth, clientHeight, viewOrigin', viewRange', maxIter',
                 escapeVal')
    /\ UNCHANGED <<moveFactor, pointer, canvasSize, nTouches, loaded, fragment>>

\* a resetView that takes escapeVal from the slider before it resets the
\* slider
ResetViewReadsSlider ==
    /\ Dispatch("reset", NoInput)
    /\ viewOrigin' = [x |-> initViewOrigin.x, y |-> initViewOrigin.y]
    /\ viewRange' = initViewRange
    /\ moveFactor' = [x |-> initMoveFactor, y |-> initMoveFactor]
    /\ maxIter' = initMaxIter
    /\ escapeVal' = Div(ParseInt(escapeSlider), Num(100, 1))
    /\ iterSlider' = NumberToString(initMaxIter)
    /\ escapeSlider' = NumberToString(Mul(initEscapeVal, Num(100, 1)))
    /\ iterLabel' = NumberToString(initMaxIter)
    /\ escapeLabel' = NumberToString(initEscapeVal)
    /\ DrawScene(clientWidth, clientHeight, viewOrigin', viewRange', maxIter',
                 escapeVal')
    /\ UNCHANGED <<pointer, canvasSize, nTouches, loaded, fragment>>

\* resetView(), the click/touchstart handler of the reset button
ResetView ==
    /\ Dispatch("reset", NoInput)
    /\ viewOrigin' = [x |-> initViewOrigin.x, y |-> initViewOrigin.y]
    /\ viewRange' = initViewRange
    /\ moveFactor' = [x |-> initMoveFactor, y |-> initMoveFactor]
    /\ maxIter' = initMaxIter
    /\ escapeVal' = initEscapeVal
    /\ iterSlider' = NumberToString(initMaxIter)
    /\ escapeSlider' = NumberToString(Mul(initEscapeVal, Num(100, 1)))
    /\ iterLabel' = NumberToString(initMaxIter)
    /\ escapeLabel' = NumberToString(initEscapeVal)
    /\ DrawScene(clientWidth, clientHeight, viewOrigin', viewRange', maxIter',
                 escapeVal')
    /\ UNCHANGED <<pointer, canvasSize, nTouches, loaded, fragment>>

\* a wheel handler that zooms and returns without drawing
HandleWheelNoDraw(deltaY) ==
    LET z == ZoomView(Num(deltaY, 1), viewRange, moveFactor)
    IN  /\ Dispatch("wheel", Zoom(Num(deltaY, 1)))
        /\ viewRange' = z.viewRange
        /\ moveFactor' = z.moveFactor
        /\ NoDraw
        /\ UNCHANGED <<viewOrigin, maxIter, escapeVal, pointer, canvasSize, gui,
                       nTouches, loaded, fragment>>

\* a wheel handler that also scrolls the view sideways by the delta
HandleWheelScrolls(deltaY) ==
    LET z == ZoomView(Num(deltaY, 1), viewRange, moveFactor)
    IN  /\ Dispatch("wheel", Zoom(Num(deltaY, 1)))
        /\ viewRange' = z.viewRange
        /\ moveFactor' = z.moveFactor
        /\ viewOrigin' = TranslateView(Mul(Num(deltaY, 1), moveFactor.x), Zero,
                                       viewOrigin)
        /\ DrawScene(clientWidth, clientHeight, viewOrigin', z.viewRange, maxIter,
                     escapeVal)
        /\ UNCHANGED <<maxIter, escapeVal, pointer, canvasSize, gui, nTouches,
                       loaded, fragment>>

\* handleWheel(event)
HandleWheel(deltaY) ==
    LET z == ZoomView(Num(deltaY, 1), viewRange, moveFactor)
    IN  /\ Dispatch("wheel", Zoom(Num(deltaY, 1)))
        /\ viewRange' = z.viewRange
        /\ moveFactor' = z.moveFactor
        /\ DrawScene(clientWidth, clientHeight, viewOrigin, z.viewRange, maxIter,
                     escapeVal)
        /\ UNCHANGED <<viewOrigin, maxIter, escapeVal, pointer, canvasSize, gui,
                       nTouches, loaded, fragment>>

\* handleMouseDown(event)
HandleMouseDown(pageX, pageY) ==
    /\ Dispatch("mousedown", NoInput)
    /\ down' = TRUE
    /\ mouseX' = Num(pageX, 1)
    /\ mouseY' = Num(pageY, 1)
    /\ NoDraw
    /\ UNCHANGED <<view, touchesDist, touchesSum, canvasSize, gui, nTouches,
                   loaded, fragment>>

\* handleMouseUp(event)
HandleMouseUp ==
    /\ Dispatch("mouseup", NoInput)
    /\ down' = FALSE
    /\ NoDraw
    /\ UNCHANGED <<view, mouseX, mouseY, touchesDist, touchesSum, canvasSize, gui, nTouches,
                   loaded, fragment>>

\* a handleMouseMove that does not test `down`
HandleMouseMoveAlways(pageX, pageY) ==
    LET x == Num(pageX, 1)
        y == Num(pageY, 1)
        tx == Sub(ToNumber(mouseX), x)
        ty == Sub(ToNumber(mouseY), y)
    IN  /\ Dispatch("mousemove", Pan(tx, ty))
        /\ mouseX' = x
        /\ mouseY' = y
        /\ viewOrigin' = TranslateView(Mul(tx, moveFactor.x),
                                       Mul(Mul(ty, moveFactor.y), aspectRatio),
                                       viewOrigin)
        /\ DrawScene(clientWidth, clientHeight, viewOrigin', viewRange,
                     maxIter, escapeVal)
        /\ UNCHANGED <<viewRange, moveFactor, maxIter, escapeVal, down,
                       touchesDist, touchesSum, canvasSize, gui, nTouches, loaded,
                       fragment>>

\* handleMouseMove(event)
HandleMouseMove(pageX, pageY) ==
    /\ IF down
       THEN LET x == Num(pageX, 1)
                y == Num(pageY, 1)
                tx == Sub(ToNumber(mouseX), x)
                ty == Sub(ToNumber(mouseY), y)
            IN  /\ Dispatch("mousemove", Pan(tx, ty))
                /\ mouseX' = x
                /\ mouseY' = y
                /\ viewOrigin' = TranslateView(Mul(tx, moveFactor.x),
                                               Mul(Mul(ty, moveFactor.y), aspectRatio),
                                               viewOrigin)
                /\ DrawScene(clientWidth, clientHeight, viewOrigin', viewRange,
                             maxIter, escapeVal)
       ELSE /\ Dispatch("mousemove", NoInput)
            /\ UNCHANGED <<mouseX, mouseY, viewOrigin>>
            /\ NoDraw
    /\ UNCHANGED <<viewRange, moveFactor, maxIter, escapeVal, down, touchesDist, touchesSum,
                   canvasSize, gui, nTouches, loaded, fragment>>

\* the value assigned by "touchesDist = Math.abs(x0 - x1);": the statement
\* ends at the semicolon, the following "+ Math.abs(y0 - y1);" is a separate
\* expression statement whose value is dropped
TouchesDistance(touches) ==
    MathAbs(Sub(Num(touches.at[1].pageX, 1), Num(touches.at[2].pageX, 1)))

\* the two separations of the first two touches added up: the value of the
\* two lines of that assignment read as one expression
TouchesSum(touches) ==
    Add(MathAbs(Sub(Num(touches.at[1].pageX, 1), Num(touches.at[2].pageX, 1))),
        MathAbs(Sub(Num(touches.at[1].pageY, 1), Num(touches.at[2].pageY, 1))))

\* handleTouchStart(event): `changed` fingers land on the canvas, `touches`
\* are all the fingers then on the screen
HandleTouchStart(touches, changed) ==
    /\ Dispatch("touchstart", NoInput)
    /\ touches.len = nTouches + changed
    /\ nTouches' = touches.len
    /\ IF touches.len = 1 /\ changed = 1
       THEN /\ down' = TRUE
            /\ mouseX' = Num(touches.at[1].pageX, 1)
            /\ mouseY' = Num(touches.at[1].pageY, 1)
            /\ UNCHANGED <<touchesDist, touchesSum>>
       ELSE IF touches.len = 2 /\ changed > 0
       THEN /\ down' = TRUE
            /\ touchesDist' = TouchesDistance(touches)
            /\ touchesSum' = TouchesSum(touches)
            /\ UNCHANGED <<mouseX, mouseY>>
       ELSE UNCHANGED pointer
    /\ NoDraw
    /\ UNCHANGED <<view, canvasSize, gui, loaded, fragment>>

\* handleTouchEnd(event): `lifted` fingers leave the screen
HandleTouchEnd(lifted) ==
    /\ Dispatch("touchend", NoInput)
    /\ lifted \in 1..nTouches
    /\ nTouches' = nTouches - lifted
    /\ down' = FALSE
    /\ NoDraw
    /\ UNCHANGED <<view, mouseX, mouseY, touchesDist, touchesSum, canvasSize, gui, loaded,
                   fragment>>

\* handleTouchMove(event): some finger moved (changedTouches is never empty),
\* `touches` are the fingers on the screen
HandleTouchMove(touches) ==
    /\ nTouches >= 1
    /\ touches.len = nTouches
    /\ IF down /\ touches.len = 1
       THEN LET x == Num(touches.at[1].pageX, 1)
                y == Num(touches.at[1].pageY, 1)
                tx == Sub(ToNumber(mouseX), x)
                ty == Sub(ToNumber(mouseY), y)
            IN  /\ Dispatch("touchmove", Pan(tx, ty))
                /\ mouseX' = x
                /\ mouseY' = y
                /\ viewOrigin' = TranslateView(Div(Mul(tx, moveFactor.x), aspectRatio),
                                               Mul(ty, moveFactor.y),
                                               viewOrigin)
                /\ DrawScene(clientWidth, clientHeight, viewOrigin', viewRange,
                             maxIter, escapeVal)
                /\ UNCHANGED <<viewRange, moveFactor, touchesDist, touchesSum>>
       ELSE IF down /\ touches.len = 2
       THEN LET dist == TouchesDistance(touches)
                touchzoom == Sub(ToNumber(touchesDist), dist)
                z == ZoomView(touchzoom, viewRange, moveFactor)
            IN  /\ Dispatch("touchmove",
                            Pinch(touchzoom,
                                  Sub(TouchesSum(touches), ToNumber(touchesSum))))
                /\ touchesDist' = dist
                /\ touchesSum' = TouchesSum(touches)
                /\ viewRange' = z.viewRange
                /\ moveFactor' = z.moveFactor
                /\ DrawScene(clientWidth, clientHeight, viewOrigin, z.viewRange,
                             maxIter, escapeVal)
                /\ UNCHANGED <<viewOrigin, mouseX, mouseY>>
       ELSE /\ Dispatch("touchmove", NoInput)
            /\ UNCHANGED <<viewOrigin, viewRange, moveFactor, mouseX, mouseY,
                           touchesDist, touchesSum>>
            /\ NoDraw
    /\ UNCHANGED <<maxIter, escapeVal, down, canvasSize, gui, nTouches, loaded,
                   fragment>>

\* iterSlider.oninput, the slider dragged to `value`
IterSliderInput(value) ==
    /\ Dispatch("iterSlider", NoInput)
    /\ iterSlider' = value
    /\ maxIter' = value
    /\ iterLabel' = value
    /\ DrawScene(clientWidth, clientHeight, viewOrigin, viewRange, maxIter',
                 escapeVal)
    /\ UNCHANGED <<viewOrigin, viewRange, moveFactor, escapeVal, pointer,
                   canvasSize, escapeSlider, escapeLabel, nTouches, loaded,
                   fragment>>

\* escapeSlider.oninput, the slider dragged to `value`
EscapeSliderInput(value) ==
    /\ Dispatch("escapeSlider", NoInput)
    /\ escapeSlider' = value
    /\ escapeVal' = Div(ParseInt(value), Num(100, 1))
    /\ escapeLabel' = NumberToString(escapeVal')
    /\ DrawScene(clientWidth, clientHeight, viewOrigin, viewRange, maxIter,
                 escapeVal')
    /\ UNCHANGED <<viewOrigin, viewRange, moveFactor, maxIter, pointer,
                   canvasSize, iterSlider, iterLabel, nTouches, loaded, fragment>>

\* window.onresize: the canvas is laid out at w x h, then the handler draws
Resize(w, h) ==
    /\ Dispatch("resize", NoInput)
    /\ clientWidth' = w
    /\ clientHeight' = h
    /\ DrawScene(w, h, viewOrigin, viewRange, maxIter, escapeVal)
    /\ UNCHANGED <<view, pointer, gui, nTouches, loaded, fragment>>

\* window.onload = main: the first frame
Main ==
    /\ stage = "listening"
    /\ ~loaded
    /\ UNCHANGED <<startup, cameraState>>
    /\ loaded' = TRUE
    /\ DrawScene(clientWidth, clientHeight, viewOrigin, viewRange, maxIter,
                 escapeVal)
    /\ lastEvent' = "load"
    /\ preView' = view
    /\ lastInput' = NoInput
    /\ UNCHANGED <<view, pointer, canvasSize, gui, nTouches, events, fragment>>

(***************************************************************************)
(* Controller specification: the script after its top-level code has run,  *)
(* then any sequence of input events.                                      *)
(***************************************************************************)
\* the earlier revision's constants: initial moving speed of the camera,
\* limit of the zoom out, bounding limits of the translated view
cameraInitMoveFactor == Num(25, 10000)
zoomLimit == Num(-4, 1)
minX == Num(-4, 1)
maxX == Num(4, 1)
minY == Num(-5, 2)
maxY == Num(5, 2)

\* the camera and its speed as the earlier revision declares them
InitCamera ==
    /\ camera = [x |-> Zero, y |-> Zero, z |-> zoomLimit]
    /\ cameraSpeed = [x |-> cameraInitMoveFactor, y |-> cameraInitMoveFactor]

\* the script's variables as its top-level code leaves them
InitScript ==
    /\ aspectRatio = Num(1, 1)
    /\ moveFactor = [x |-> initMoveFactor, y |-> initMoveFactor]
    /\ viewOrigin = [x |-> initViewOrigin.x, y |-> initViewOrigin.y]
    /\ viewRange = initViewRange
    /\ maxIter = initMaxIter
    /\ escapeVal = initEscapeVal
    /\ down = FALSE
    /\ mouseX = Undefined
    /\ mouseY = Undefined
    /\ touchesDist = Undefined
    /\ touchesSum = Undefined
    /\ iterSlider = NumberToString(initMaxIter)
    /\ iterLabel = NumberToString(initMaxIter)
    /\ escapeSlider = NumberToString(Mul(initEscapeVal, Num(100, 1)))
    /\ escapeLabel = NumberToString(initEscapeVal)
    /\ nTouches = 0
    /\ loaded = FALSE
    /\ drew = FALSE
    /\ lastEvent = "none"
    /\ preView = view
    /\ lastInput = NoInput
    /\ events = 0

\* no uniform has been set yet
InitUniforms ==
    /\ uRealAspectRatio = Zero
    /\ uViewOrigin = [x |-> Zero, y |-> Zero]
    /\ uViewRange = Zero
    /\ uMaxIterations = 0
    /\ uEscapeValue = Zero

\* the shader is not being followed
InitFragment ==
    /\ pc = "idle"
    /\ vTextureCoord = [u |-> Zero, v |-> Zero]
    /\ c_real = Zero
    /\ c_imaginary = Zero
    /\ z_real = Zero
    /\ z_imaginary = Zero
    /\ i = 0
    /\ iter = 0
    /\ updates = 0
    /\ gl_FragColor = NoColour

\* the top-level code has run to its end without an alert
StartupDone ==
    /\ stage = "listening"
    /\ gl = "context"
    /\ vertexShader = "shader"
    /\ fragmentShader = "shader"
    /\ shaderProgram = "program"
    /\ alerts = 0

Init ==
    /\ StartupDone
    /\ InitCamera
    /\ InitScript
    /\ InitUniforms
    /\ InitFragment
    /\ \E size \in CanvasSizes : clientWidth = size.w /\ clientHeight = size.h

Next ==
    \/ Main
    \/ ResetView
    \/ \E deltaY \in -MaxDelta..MaxDelta : HandleWheel(deltaY)
    \/ \E p \in Point : HandleMouseDown(p.pageX, p.pageY)
    \/ HandleMouseUp
    \/ \E p \in Point : HandleMouseMove(p.pageX, p.pageY)
    \/ \E changed \in 1..(MaxTouches - nTouches) :
          \E touches \in TouchLists(nTouches + changed) :
             HandleTouchStart(touches, changed)
    \/ \E lifted \in 1..nTouches : HandleTouchEnd(lifted)
    \/ \E touches \in TouchLists(nTouches) : HandleTouchMove(touches)
    \/ \E value \in IterSliderValues : IterSliderInput(value)
    \/ \E value \in EscapeSliderValues : EscapeSliderInput(value)
    \/ \E size \in CanvasSizes : Resize(size.w, size.h)

Spec == Init /\ [][Next]_vars

(***************************************************************************)
(* Camera specification: the earlier revision of the script (lines 1-498), *)
(* which keeps the plane fixed and moves a camera over the quad.  Its view *)
(* variables viewOrigin, viewRange and maxIter are declared with the same  *)
(* values (0, 0), 8 and 40 and are never assigned; it has no escape value. *)
(***************************************************************************)
\* page coordinates of this revision's pointer events: one drag across them
\* carries the camera past its bounds
CameraPos == {0, 2000}
CameraPoint == [pageX : CameraPos, pageY : CameraPos]
CameraTouchLists(n) ==
    [len : {n}, at : [1..(IF n < 2 THEN n ELSE 2) -> CameraPoint]]

\* translateCamera(x, y): camera.x -= x, camera.y += y, camera.z += 0.0, then
\* the four conditional expressions that bound x and y
TranslateCamera(x, y, cam) ==
    LET cx == Sub(cam.x, x)
        cy == Add(cam.y, y)
        cz == Add(cam.z, Zero)
        x1 == IF Gt(cx, minX) THEN cx ELSE minX
        x2 == IF Lt(x1, maxX) THEN x1 ELSE maxX
        y1 == IF Gt(cy, minY) THEN cy ELSE minY
        y2 == IF Lt(y1, maxY) THEN y1 ELSE maxY
    IN  [x |-> x2, y |-> y2, z |-> cz]

\* a zoomCamera that lets the camera back away without limit
ZoomCameraNoLimit(direction, cam, speed) ==
    IF Lt(direction, Zero)
    THEN [camera |-> [cam EXCEPT !.z = Div(cam.z, zoomFactor)],
          cameraSpeed |-> [x |-> Div(speed.x, zoomFactor),
                           y |-> Mul(speed.y, zoomFactor)]]
    ELSE IF Gt(direction, Zero)
    THEN [camera |-> [cam EXCEPT !.z = Mul(cam.z, zoomFactor)],
          cameraSpeed |-> [x |-> Mul(speed.x, zoomFactor),
                           y |-> Mul(speed.y, zoomFactor)]]
    ELSE [camera |-> cam, cameraSpeed |-> speed]

\* zoomCamera(direction): the camera and its speed afterwards
ZoomCamera(direction, cam, speed) ==
    IF Lt(direction, Zero)
    THEN [camera |-> [cam EXCEPT !.z = Div(cam.z, zoomFactor)],
          cameraSpeed |-> [x |-> Div(speed.x, zoomFactor),
                           y |-> Mul(speed.y, zoomFactor)]]
    ELSE IF Gt(direction, Zero)
    THEN LET z == Mul(cam.z, zoomFactor)
             tooFar == Lt(z, zoomLimit)
             z1 == IF tooFar THEN zoomLimit ELSE z
         IN  [camera |-> [cam EXCEPT !.z = IF Gt(z1, zoomLimit) THEN z1
                                                                ELSE zoomLimit],
              cameraSpeed |->
                  IF tooFar
                  THEN [x |-> cameraInitMoveFactor, y |-> cameraInitMoveFactor]
                  ELSE [x |-> Mul(speed.x, zoomFactor),
                        y |-> Mul(speed.y, zoomFactor)]]
    ELSE [camera |-> cam, cameraSpeed |-> speed]

\* drawScene() of this revision: updateCanvasRatio() recomputes the aspect
\* ratio of the w x h canvas and derives cameraSpeed.y from cameraSpeed.x,
\* updateUniforms() sends viewOrigin, viewRange, maxIter and the ratio (this
\* revision's shader has no uEscapeValue), and the quad is drawn
CameraDrawScene(w, h, speed) ==
    /\ aspectRatio' = CanvasRatio(w, h)
    /\ cameraSpeed' = [x |-> speed.x, y |-> Mul(speed.x, CanvasRatio(w, h))]
    /\ uViewOrigin' = viewOrigin
    /\ uViewRange' = viewRange
    /\ uMaxIterations' = ToGLint(maxIter)
    /\ uRealAspectRatio' = CanvasRatio(w, h)
    /\ drew' = TRUE
    /\ UNCHANGED uEscapeValue

\* a handler of this revision that returns without drawing
CameraNoDraw == NoDraw /\ UNCHANGED cameraSpeed

\* one more input event is dispatched to a handler of this revision
CameraDispatch(event, input) ==
    /\ stage = "listening"
    /\ events < MaxEvents
    /\ events' = events + 1
    /\ lastEvent' = event
    /\ lastInput' = input
    /\ UNCHANGED <<view, preView, gui, startup, touchesSum, fragment>>

\* handleWheel(event) of this revision
CameraHandleWheel(deltaY) ==
    LET z == ZoomCamera(Num(deltaY, 1), camera, cameraSpeed)
    IN  /\ CameraDispatch("wheel", Zoom(Num(deltaY, 1)))
        /\ camera' = z.camera
        /\ CameraDrawScene(clientWidth, clientHeight, z.cameraSpeed)
        /\ UNCHANGED <<down, mouseX, mouseY, touchesDist, canvasSize, nTouches,
                       loaded>>

\* handleMouseDown(event) of this revision
CameraHandleMouseDown(pageX, pageY) ==
    /\ CameraDispatch("mousedown", NoInput)
    /\ down' = TRUE
    /\ mouseX' = Num(pageX, 1)
    /\ mouseY' = Num(pageY, 1)
    /\ CameraNoDraw
    /\ UNCHANGED <<camera, touchesDist, canvasSize, nTouches, loaded>>

\* handleMouseUp(event) of this revision
CameraHandleMouseUp ==
    /\ CameraDispatch("mouseup", NoInput)
    /\ down' = FALSE
    /\ CameraNoDraw
    /\ UNCHANGED <<camera, mouseX, mouseY, touchesDist, canvasSize, nTouches,
                   loaded>>

\* handleMouseMove(event) of this revision
CameraHandleMouseMove(pageX, pageY) ==
    /\ IF down
       THEN LET x == Num(pageX, 1)
                y == Num(pageY, 1)
                tx == Sub(ToNumber(mouseX), x)
                ty == Sub(ToNumber(mouseY), y)
            IN  /\ CameraDispatch("mousemove", Pan(tx, ty))
                /\ mouseX' = x
                /\ mouseY' = y
                /\ camera' = TranslateCamera(
                                 Mul(tx, cameraSpeed.x),
                                 Div(Mul(ty, cameraSpeed.y), aspectRatio),
                                 camera)
                /\ CameraDrawScene(clientWidth, clientHeight, cameraSpeed)
       ELSE /\ CameraDispatch("mousemove", NoInput)
            /\ UNCHANGED <<mouseX, mouseY, camera>>
            /\ CameraNoDraw
    /\ UNCHANGED <<down, touchesDist, canvasSize, nTouches, loaded>>

\* handleTouchStart(event) of this revision
CameraHandleTouchStart(touches, changed) ==
    /\ CameraDispatch("touchstart", NoInput)
    /\ touches.len = nTouches + changed
    /\ nTouches' = touches.len
    /\ IF touches.len = 1 /\ changed = 1
       THEN /\ down' = TRUE
            /\ mouseX' = Num(touches.at[1].pageX, 1)
            /\ mouseY' = Num(touches.at[1].pageY, 1)
            /\ UNCHANGED touchesDist
       ELSE IF touches.len = 2 /\ changed > 0
       THEN /\ down' = TRUE
            /\ touchesDist' = TouchesDistance(touches)
            /\ UNCHANGED <<mouseX, mouseY>>
       ELSE UNCHANGED <<down, mouseX, mouseY, touchesDist>>
    /\ CameraNoDraw
    /\ UNCHANGED <<camera, canvasSize, loaded>>

\* handleTouchEnd(event) of this revision
CameraHandleTouchEnd(lifted) ==
    /\ CameraDispatch("touchend", NoInput)
    /\ lifted \in 1..nTouches
    /\ nTouches' = nTouches - lifted
    /\ down' = FALSE
    /\ CameraNoDraw
    /\ UNCHANGED <<camera, mouseX, mouseY, touchesDist, canvasSize, loaded>>

\* handleTouchMove(event) of this revision
CameraHandleTouchMove(touches) ==
    /\ nTouches >= 1
    /\ touches.len = nTouches
    /\ IF down /\ touches.len = 1
       THEN LET x == Num(touches.at[1].pageX, 1)
                y == Num(touches.at[1].pageY, 1)
                tx == Sub(ToNumber(mouseX), x)
                ty == Sub(ToNumber(mouseY), y)
            IN  /\ CameraDispatch("touchmove", Pan(tx, ty))
                /\ mouseX' = x
                /\ mouseY' = y
                /\ camera' = TranslateCamera(
                                 Mul(Mul(tx, cameraSpeed.x), aspectRatio),
                                 Mul(ty, cameraSpeed.y),
                                 camera)
                /\ CameraDrawScene(clientWidth, clientHeight, cameraSpeed)
                /\ UNCHANGED touchesDist
       ELSE IF down /\ touches.len = 2
       THEN LET dist == TouchesDistance(touches)
                touchzoom == Sub(ToNumber(touchesDist), dist)
                z == ZoomCamera(touchzoom, camera, cameraSpeed)
            IN  /\ CameraDispatch("touchmove", Zoom(touchzoom))
                /\ touchesDist' = dist
                /\ camera' = z.camera
                /\ CameraDrawScene(clientWidth, clientHeight, z.cameraSpeed)
                /\ UNCHANGED <<mouseX, mouseY>>
       ELSE /\ CameraDispatch("touchmove", NoInput)
            /\ UNCHANGED <<camera, mouseX, mouseY, touchesDist>>
            /\ CameraNoDraw
    /\ UNCHANGED <<down, canvasSize, nTouches, loaded>>

\* window.onresize of this revision: the canvas is laid out at w x h, then
\* the handler draws
CameraResize(w, h) ==
    /\ CameraDispatch("resize", NoInput)
    /\ clientWidth' = w
    /\ clientHeight' = h
    /\ CameraDrawScene(w, h, cameraSpeed)
    /\ UNCHANGED <<camera, down, mouseX, mouseY, touchesDist, nTouches, loaded>>

\* window.onload = main of this revision: the first frame
CameraMain ==
    /\ stage = "listening"
    /\ ~loaded
    /\ loaded' = TRUE
    /\ CameraDrawScene(clientWidth, clientHeight, cameraSpeed)
    /\ lastEvent' = "load"
    /\ lastInput' = NoInput
    /\ UNCHANGED <<view, preView, gui, startup, touchesSum, fragment, camera,
                   down, mouseX, mouseY, touchesDist, canvasSize, nTouches,
                   events>>

NextCamera ==
    \/ CameraMain
    \/ \E deltaY \in -MaxDelta..MaxDelta : CameraHandleWheel(deltaY)
    \/ \E p \in CameraPoint : CameraHandleMouseDown(p.pageX, p.pageY)
    \/ CameraHandleMouseUp
    \/ \E p \in CameraPoint : CameraHandleMouseMove(p.pageX, p.pageY)
    \/ \E changed \in 1..(MaxTouches - nTouches) :
          \E touches \in CameraTouchLists(nTouches + changed) :
             CameraHandleTouchStart(touches, changed)
    \/ \E lifted \in 1..nTouches : CameraHandleTouchEnd(lifted)
    \/ \E touches \in CameraTouchLists(nTouches) : CameraHandleTouchMove(touches)
    \/ \E size \in CanvasSizes : CameraResize(size.w, size.h)

SpecCamera == Init /\ [][NextCamera]_vars

(***************************************************************************)
(* Startup specification: the script's top-level code from its first       *)
(* statement, WebGL granting or refusing the context, the compilation and  *)
(* the linking, then the input events if the listeners were registered.    *)
(***************************************************************************)
\* a startup that carries on whatever handle it holds
ThrowsNever(handle) == FALSE

\* a member access on undefined (gl.createShader with gl undefined) and a
\* WebGL call given null for a shader or program argument (gl.attachShader,
\* gl.getAttribLocation) throw a TypeError; the top-level code catches
\* nothing, so the script stops there
Throws(handle) == handle \in {"undefined", "null"}

\* const gl = initGL(canvas): canvas.getContext("webgl") returns `context`
InitGL(context) ==
    /\ stage = "initGL"
    /\ IF context = "null"
       THEN gl' = "undefined" /\ alerts' = alerts + 1
       ELSE gl' = "context" /\ alerts' = alerts
    /\ stage' = "vertexShader"
    /\ UNCHANGED <<vertexShader, fragmentShader, shaderProgram, uniforms,
                   fragment, session>>

\* loadShader(gl, type, source), called twice by initShaderProgram;
\* `compiled` is the shader's COMPILE_STATUS
LoadShader(compiled) ==
    /\ stage \in {"vertexShader", "fragmentShader"}
    /\ IF Throws(gl)
       THEN /\ stage' = "aborted"
            /\ UNCHANGED <<vertexShader, fragmentShader, alerts>>
       ELSE LET shader == IF compiled THEN "shader" ELSE "null"
            IN  /\ alerts' = IF compiled THEN alerts ELSE alerts + 1
                /\ IF stage = "vertexShader"
                   THEN /\ vertexShader' = shader
                        /\ stage' = "fragmentShader"
                        /\ UNCHANGED fragmentShader
                   ELSE /\ fragmentShader' = shader
                        /\ stage' = "linkProgram"
                        /\ UNCHANGED vertexShader
    /\ UNCHANGED <<gl, shaderProgram, uniforms, fragment, session>>

\* the rest of initShaderProgram: attach both shaders, link, test
\* LINK_STATUS (`linked`; a program links only from two compiled shaders)
InitShaderProgram(linked) ==
    /\ stage = "linkProgram"
    /\ linked => (vertexShader = "shader" /\ fragmentShader = "shader")
    /\ IF Throws(vertexShader) \/ Throws(fragmentShader)
       THEN /\ stage' = "aborted"
            /\ UNCHANGED <<shaderProgram, alerts>>
       ELSE /\ shaderProgram' = IF linked THEN "program" ELSE "null"
            /\ alerts' = IF linked THEN alerts ELSE alerts + 1
            /\ stage' = "programInfo"
    /\ UNCHANGED <<gl, vertexShader, fragmentShader, uniforms, fragment, session>>

\* the top-level code after initShaderProgram: programInfo looks up the
\* program's locations, then the buffers, the script's variables, the event
\* listeners and window.onload are set
ProgramInfo ==
    /\ stage = "programInfo"
    /\ stage' = IF Throws(shaderProgram) THEN "aborted" ELSE "listening"
    /\ UNCHANGED <<gl, vertexShader, fragmentShader, shaderProgram, alerts,
                   uniforms, fragment, session>>

\* the script before its first statement
InitStartup ==
    /\ stage = "initGL"
    /\ gl = "none"
    /\ vertexShader = "none"
    /\ fragmentShader = "none"
    /\ shaderProgram = "none"
    /\ alerts = 0
    /\ InitCamera
    /\ InitScript
    /\ InitUniforms
    /\ InitFragment
    /\ \E size \in CanvasSizes : clientWidth = size.w /\ clientHeight = size.h

NextStartup ==
    \/ \E context \in {"context", "null"} : InitGL(context)
    \/ \E compiled \in BOOLEAN : LoadShader(compiled)
    \/ \E linked \in BOOLEAN : InitShaderProgram(linked)
    \/ ProgramInfo
    \/ Next

SpecStartup == InitStartup /\ [][NextStartup]_vars

(***************************************************************************)
(* Shader specification: one pixel of one frame, the uniforms and the      *)
(* pixel drawn from bounded sets.                                          *)
(***************************************************************************)
GridCoords == {Num(k, 4) : k \in 0..4}
GridRanges == {Num(8, 1), Num(16, 1)}

\* pixels of frames whose mapped coordinates are Gaussian integers
InitGrid ==
    /\ uViewOrigin \in [x : {Num(k, 1) : k \in -MaxOrigin..MaxOrigin},
                        y : {Num(k, 1) : k \in -MaxOrigin..MaxOrigin}]
    /\ uViewRange \in GridRanges
    /\ uRealAspectRatio \in {Num(k, 1) : k \in 1..MaxAspect}
    /\ uMaxIterations \in 1..MaxIterGrid
    /\ uEscapeValue \in {Num(k, 2) : k \in 1..MaxEscHalves}
    /\ vTextureCoord \in [u : GridCoords, v : GridCoords]

\* the default view (center 0, range 8, aspect 1, escape 2.0): the pixels
\* mapped to c = 0, c = 2.0 and c = 2.1
InitDefaultView ==
    /\ uViewOrigin = [x |-> Zero, y |-> Zero]
    /\ uViewRange = Num(8, 1)
    /\ uRealAspectRatio = Num(1, 1)
    /\ uMaxIterations \in {40, LoopLimit}
    /\ uEscapeValue = Num(2, 1)
    /\ vTextureCoord \in [u : {Num(1, 2), Num(3, 4), Num(61, 80)}, v : {Num(1, 2)}]

InitShader ==
    /\ InitGrid \/ InitDefaultView
    /\ StartupDone
    /\ InitCamera
    /\ InitScript
    /\ clientWidth = 400
    /\ clientHeight = 400
    /\ pc = "main"
    /\ c_real = Zero
    /\ c_imaginary = Zero
    /\ z_real = Zero
    /\ z_imaginary = Zero
    /\ i = 0
    /\ iter = 0
    /\ updates = 0
    /\ gl_FragColor = NoColour

NextShader == ShaderMain \/ ShaderLoop \/ ShaderColour

SpecShader == InitShader /\ [][NextShader]_vars

(***************************************************************************)
(* Properties of the escape-time evaluator and the coordinate mapping,     *)
(* checked under SpecShader.                                               *)
(***************************************************************************)
\* |z|^2 > escape^2 for the current z, written out on the components
ModulusExceeds ==
    Gt(Add(Mul(z_real, z_real), Mul(z_imaginary, z_imaginary)),
       Mul(uEscapeValue, uEscapeValue))

\* the shader has finished and its loop ran to the cap without escaping
EndedWithoutEscape == pc = "done" /\ ~ModulusExceeds

AtOrigin == c_real = Zero /\ c_imaginary = Zero

\* C1 (as stated): a point that does not escape within the cap gets
\* iter = maxIterations; c = (0,0) with cap 40 and radius 2.0 gets 40.
C1_AsStated == EndedWithoutEscape => iter = uMaxIterations

\* C1 (amended): a point that does not escape within the cap gets iter = 0,
\* the value iter is initialised with; c = (0,0) with cap 40 and radius 2.0
\* gets 0.
C1_NoEscapeReturnsZero == EndedWithoutEscape => iter = 0

C1_Witness ==
    /\ EndedWithoutEscape
    /\ AtOrigin
    /\ uMaxIterations = 40
    /\ uEscapeValue = Num(2, 1)
    /\ updates > 0
    /\ iter = 0

\* C2: the escape test is strict.  After the first update (z = c) the loop
\* has left by escape exactly when |c| is strictly greater than the escape
\* value: with escape 2.0, c = (2.0, 0) is still iterating and later gets
\* index 1, and c = (2.1, 0) has left with index 0.
C2_StrictEscape ==
    /\ (updates = 1 /\ pc = "loop") => ~ModulusExceeds
    /\ (updates = 1 /\ pc # "loop") => (ModulusExceeds /\ iter = 0)
    /\ (pc = "done" /\ uEscapeValue = Num(2, 1) /\ c_imaginary = Zero) =>
          /\ c_real = Num(2, 1) => iter = 1
          /\ c_real = Num(21, 10) => (iter = 0 /\ updates = 1)

C2_Witness ==
    /\ updates = 1
    /\ pc = "loop"
    /\ c_real = Num(2, 1)
    /\ c_imaginary = Zero
    /\ z_real = Num(2, 1)
    /\ uEscapeValue = Num(2, 1)

\* C3: the iteration count is an integer between 0 and maxIterations.
C3_IterInRange == iter \in 0..uMaxIterations

\* a point that escapes on the last pass the cap allows
C3_Witness ==
    /\ pc = "done"
    /\ ModulusExceeds
    /\ iter = uMaxIterations
    /\ uMaxIterations >= 1

\* C4 (as stated): the loop applies z <- z^2 + c at most maxIterations times.
C4_AsStated == updates <= uMaxIterations

AtCentrePixel ==
    /\ pc \notin {"idle", "main"}
    /\ vTextureCoord = [u |-> Num(1, 2), v |-> Num(1, 2)]

\* C5 (as stated): the pixel (u,v) = (0.5,0.5) is mapped to center exactly.
C5_AsStated ==
    AtCentrePixel => (c_real = uViewOrigin.x /\ c_imaginary = uViewOrigin.y)

\* C6 (as stated): c_real = center.real + (u - 0.5) * range * aspectRatio and
\* c_imag = center.imag + (v - 0.5) * range.
C6_AsStated ==
    pc \notin {"idle", "main"} =>
        /\ c_real = Add(uViewOrigin.x,
                        Mul(Mul(Sub(vTextureCoord.u, Num(1, 2)), uViewRange),
                            uRealAspectRatio))
        /\ c_imaginary = Add(uViewOrigin.y,
                             Mul(Sub(vTextureCoord.v, Num(1, 2)), uViewRange))

\* C18: the count is non-decreasing in the iteration cap.  For a point that
\* did not escape within the cap N = uMaxIterations, the count the same
\* loop returns with every cap N' from N to N + MaxMoreIter is at least the
\* count returned with cap N (iter, which is the loop's value for cap N).
\* Caps below the loop's compile-time limit are compared.
C18_MonotoneInCap ==
    (pc = "done" /\ uMaxIterations < LoopLimit) =>
        /\ iter = EscapeTime(c_real, c_imaginary, uEscapeValue, uMaxIterations)
        /\ EndedWithoutEscape =>
              \A more \in 0..MaxMoreIter :
                 EscapeTime(c_real, c_imaginary, uEscapeValue,
                            uMaxIterations + more) >= iter

\* a point capped at N = 1 whose escape at index 2 the cap N + 1 reveals
C18_Witness ==
    /\ pc = "done"
    /\ EndedWithoutEscape
    /\ uMaxIterations = 1
    /\ iter = 0
    /\ EscapeTime(c_real, c_imaginary, uEscapeValue, uMaxIterations + 1) = 2

\* C19: the output colour is (level, level * 0.6, 0.1), opaque, with
\* level = (iter / maxIterations) * 0.8 + 0.1; a pixel whose point did not
\* escape within the cap has level 0.1, the dim end of the ramp, like a
\* pixel that escaped at index 0.
C19_NoEscapeIsDim ==
    pc = "done" =>
        LET level == gl_FragColor[1]
        IN  /\ gl_FragColor = <<level, Mul(level, Num(3, 5)), Num(1, 10), Num(1, 1)>>
            /\ Sub(level, Num(1, 10)) =
                  Div(Mul(Num(iter, 1), Num(4, 5)), Num(uMaxIterations, 1))
            /\ (EndedWithoutEscape \/ iter = 0) => level = Num(1, 10)

\* a pixel of c = (0,0), after all the passes its cap allows
C19_Witness ==
    /\ pc = "done"
    /\ EndedWithoutEscape
    /\ AtOrigin
    /\ updates = uMaxIterations + 1
    /\ gl_FragColor = <<Num(1, 10), Num(6, 100), Num(1, 10), Num(1, 1)>>

(***************************************************************************)
(* Properties of the view controller, checked under Spec.                  *)
(***************************************************************************)
\* the view state the script is constructed with
InitialView ==
    <<[x |-> initViewOrigin.x, y |-> initViewOrigin.y], initViewRange,
      [x |-> initMoveFactor, y |-> initMoveFactor], initMaxIter, initEscapeVal>>

\* no frame has been drawn: viewRange, never 0, has not been sent
NeverDrawn == uViewRange = Zero

\* the uniforms hold the current view (maxIter as the integer it spells)
SentMatchesView ==
    /\ uViewOrigin = viewOrigin
    /\ uViewRange = viewRange
    /\ IsNum(ToNumber(maxIter))
    /\ Num(uMaxIterations, 1) = ToNumber(maxIter)
    /\ uEscapeValue = escapeVal
    /\ uRealAspectRatio = aspectRatio

\* C7: a handler that changed a field of the view state, and every resize,
\* drew a frame before returning, and between events the values last sent
\* to the renderer equal the current view state (before the first frame
\* the view state is still the initial one).
C7_ChangesAreDrawn ==
    /\ (view # preView \/ lastEvent = "resize") => drew
    /\ IF NeverDrawn THEN view = InitialView ELSE SentMatchesView

C7_Witness ==
    /\ lastEvent = "wheel"
    /\ viewRange # preView[2]
    /\ drew
    /\ SentMatchesView

\* C8 (as stated): after a touch ends, the controller is dragging if exactly
\* one finger remains and idle if none remains.
C8_AsStated ==
    lastEvent = "touchend" =>
        /\ nTouches = 1 => down
        /\ nTouches = 0 => ~down

\* C9 (as stated): both coordinates of the view center are finite numbers.
C9_AsStated == IsNum(viewOrigin.x) /\ IsNum(viewOrigin.y)

\* C10: resetView() leaves center = (0,0), range = 8.0, maxIterations = 40
\* (the number), escapeRadius = 2.0 and moveFactor at its initial value on
\* both axes, whatever the view state it started from.
C10_ResetRestoresDefaults ==
    lastEvent = "reset" =>
        /\ viewOrigin = [x |-> Zero, y |-> Zero]
        /\ viewRange = Num(8, 1)
        /\ maxIter = Num(40, 1)
        /\ escapeVal = Num(2, 1)
        /\ moveFactor = [x |-> Num(52, 10000), y |-> Num(52, 10000)]

\* a reset of a view that was zoomed and had another field changed too
C10_Witness ==
    /\ lastEvent = "reset"
    /\ preView[2] # initViewRange
    /\ preView[3] # InitialView[3]
    /\ <<preView[1], preView[4], preView[5]>> #
          <<InitialView[1], InitialView[4], InitialView[5]>>
    /\ view = InitialView

\* C11: resetView() is idempotent.  A reset that immediately follows a
\* reset leaves every field of the view state as the first reset left it.
C11_ResetIdempotent ==
    [][(lastEvent = "reset" /\ lastEvent' = "reset" /\ events' = events + 1)
          => view' = view]_vars

\* a reset of a view state that is already the one a reset leaves, after
\* at least one other event
C11_Witness ==
    /\ lastEvent = "reset"
    /\ events >= 2
    /\ preView = InitialView
    /\ view = preView
    /\ drew

\* the last handler called zoomView with a positive / a negative direction
\* (a wheel turn or a two-finger move; a pan's direction is 0)
ZoomedPositive == Gt(lastInput.direction, Zero)
ZoomedNegative == Lt(lastInput.direction, Zero)

\* C12: a zoom immediately followed by a zoom in the opposite direction
\* restores viewRange and moveFactor to the values they had before the
\* first of the two (preView is the view state the first zoom started from).
C12_OppositeZoomsCancel ==
    [][((ZoomedPositive /\ ZoomedNegative') \/ (ZoomedNegative /\ ZoomedPositive'))
          => (viewRange' = preView[2] /\ moveFactor' = preView[3])]_vars

\* a zoom with a negative direction that took the once-enlarged default view
\* back to the default range and drag sensitivity
C12_Witness ==
    /\ lastEvent = "wheel"
    /\ ZoomedNegative
    /\ preView[2] = Mul(initViewRange, zoomFactor)
    /\ preView[3].x = Mul(initMoveFactor, zoomFactor)
    /\ viewRange = initViewRange
    /\ moveFactor = [x |-> initMoveFactor, y |-> initMoveFactor]

\* C13: a wheel turn or a two-finger move scales viewRange by a factor that
\* depends only on the sign of its delta: times 1.1 for a positive delta,
\* divided by 1.1 for a negative one, unchanged for 0, whatever the delta's
\* magnitude.
C13_ZoomBySign ==
    lastEvent \in {"wheel", "touchmove"} =>
        viewRange = IF ZoomedPositive THEN Mul(preView[2], Num(11, 10))
                    ELSE IF ZoomedNegative THEN Mul(preView[2], Num(10, 11))
                    ELSE preView[2]

\* a wheel turn of delta 2 that scaled the range by 1.1, not more
C13_Witness ==
    /\ lastEvent = "wheel"
    /\ lastInput.direction = Num(2, 1)
    /\ viewRange = Mul(preView[2], Num(11, 10))

\* the drag sensitivity that is proportional to the zoom span
ProportionalMoveFactor == Div(Mul(initMoveFactor, viewRange), initViewRange)

\* C14: after any sequence of zoom, pan, slider, resize and reset operations
\* moveFactor.x and moveFactor.y both equal
\* initMoveFactor * viewRange / initViewRange.
C14_MoveFactorProportional ==
    /\ moveFactor.x = ProportionalMoveFactor
    /\ moveFactor.y = ProportionalMoveFactor

\* a view zoomed twice the same way, by the wheel or by two fingers
C14_Witness ==
    /\ viewRange \in {Mul(Mul(initViewRange, zoomFactor), zoomFactor),
                      Div(Div(initViewRange, zoomFactor), zoomFactor)}
    /\ moveFactor.x # initMoveFactor
    /\ moveFactor.y = ProportionalMoveFactor

\* the last handler panned a finite center by dx = 10 pixels and dy = 0,
\* with the mouse or with one finger
PannedTenAcross ==
    /\ lastEvent \in {"mousemove", "touchmove"}
    /\ MathAbs(lastInput.tx) = Num(10, 1)
    /\ lastInput.ty = Zero
    /\ IsNum(preView[1].x)
    /\ IsNum(preView[1].y)

\* C15 (as stated): a pan of dx = 10 pixels and dy = 0 changes exactly one
\* coordinate of the center, by magnitude 10 * moveFactor (0.05 at
\* moveFactor 0.005), and leaves the other unchanged, whatever the canvas
\* aspect ratio.
C15_AsStated ==
    PannedTenAcross =>
        LET dx == Sub(viewOrigin.x, preView[1].x)
            dy == Sub(viewOrigin.y, preView[1].y)
        IN  \/ MathAbs(dx) = Mul(Num(10, 1), moveFactor.x) /\ dy = Zero
            \/ MathAbs(dy) = Mul(Num(10, 1), moveFactor.y) /\ dx = Zero

\* C16 (as stated): after any sequence of escape-slider changes and resets
\* the escape radius is strictly positive.
C16_AsStated == Gt(escapeVal, Zero)

\* C17 (as stated): after any sequence of iteration-slider changes and
\* resets the stored maxIter is a number, not a string, that is an integer
\* and at least 1.
C17_AsStated ==
    /\ IsNum(maxIter)
    /\ maxIter.d = 1
    /\ maxIter.n >= 1

\* C20: a handler that drew a frame sent the aspect ratio of the canvas as
\* it is displayed at that draw, clientWidth / clientHeight, and holds the
\* same value in aspectRatio.
C20_RatioIsCurrent ==
    drew =>
        /\ uRealAspectRatio = Div(Num(clientWidth, 1), Num(clientHeight, 1))
        /\ aspectRatio = uRealAspectRatio

\* the frame drawn by the resize handler on a canvas now twice as high as
\* wide
C20_Witness ==
    /\ lastEvent = "resize"
    /\ drew
    /\ clientWidth = 400
    /\ clientHeight = 800
    /\ uRealAspectRatio = Num(1, 2)

\* C22: a mousemove or touchmove handled while idle (down is false; the
\* move handlers do not assign it) leaves every field of the view state
\* unchanged and draws no frame; mousedown and mouseup change no field of
\* the view state.
C22_IdleMovesDoNothing ==
    /\ (lastEvent \in {"mousemove", "touchmove"} /\ ~down) =>
           (view = preView /\ ~drew /\ lastInput = NoInput)
    /\ lastEvent \in {"mousedown", "mouseup"} => view = preView

\* a mouse move after a press and a release
C22_Witness ==
    /\ lastEvent = "mousemove"
    /\ ~down
    /\ IsNum(mouseX)
    /\ events >= 3
    /\ view = preView
    /\ ~drew

\* C23: a zoom (a wheel turn, a move with two fingers down) leaves the
\* center, maxIter and escapeVal unchanged; a pan (a mouse move, a move with
\* one finger down) leaves viewRange, moveFactor, maxIter and escapeVal
\* unchanged; a slider changes only its own parameter.
C23_OwnFieldsOnly ==
    /\ (lastEvent = "wheel" \/ (lastEvent = "touchmove" /\ nTouches = 2)) =>
           /\ viewOrigin = preView[1]
           /\ maxIter = preView[4]
           /\ escapeVal = preView[5]
    /\ (lastEvent = "mousemove" \/ (lastEvent = "touchmove" /\ nTouches = 1)) =>
           /\ viewRange = preView[2]
           /\ moveFactor = preView[3]
           /\ maxIter = preView[4]
           /\ escapeVal = preView[5]
    /\ lastEvent = "iterSlider" =>
           /\ viewOrigin = preView[1]
           /\ viewRange = preView[2]
           /\ moveFactor = preView[3]
           /\ escapeVal = preView[5]
    /\ lastEvent = "escapeSlider" =>
           /\ viewOrigin = preView[1]
           /\ viewRange = preView[2]
           /\ moveFactor = preView[3]
           /\ maxIter = preView[4]

\* a two-finger move that zoomed and left the center where it was
C23_Witness ==
    /\ lastEvent = "touchmove"
    /\ nTouches = 2
    /\ viewRange # preView[2]
    /\ viewOrigin = preView[1]
    /\ drew

\* the last handler was a move of two fingers during a two-finger gesture
PinchMoved ==
    /\ lastEvent = "touchmove"
    /\ down
    /\ nTouches = 2
    /\ IsNum(lastInput.spread)

\* C24 (as stated): the pinch delta is the change of |x0 - x1| + |y0 - y1|
\* since the previous touch event.  A two-finger move that makes the sum
\* grow zooms in by one step (viewRange divided by 1.1), one that makes it
\* shrink zooms out by one step, also when the fingers move vertically
\* only; a move that keeps the sum does not zoom.
C24_AsStated ==
    PinchMoved =>
        viewRange = IF Gt(lastInput.spread, Zero) THEN Div(preView[2], zoomFactor)
                    ELSE IF Lt(lastInput.spread, Zero) THEN Mul(preView[2], zoomFactor)
                    ELSE preView[2]

(***************************************************************************)
(* Properties of the earlier revision's camera, checked under SpecCamera.  *)
(***************************************************************************)
\* the camera is a point of the box its constants describe
CameraInBounds ==
    /\ IsNum(camera.x) /\ ~Lt(camera.x, minX) /\ ~Gt(camera.x, maxX)
    /\ IsNum(camera.y) /\ ~Lt(camera.y, minY) /\ ~Gt(camera.y, maxY)
    /\ IsNum(camera.z) /\ ~Lt(camera.z, zoomLimit) /\ Lt(camera.z, Zero)

\* the last handler called zoomCamera with a positive direction and left the
\* camera at the limit of the zoom out
ZoomOutAtLimit ==
    /\ lastEvent \in {"wheel", "touchmove"}
    /\ ZoomedPositive
    /\ camera.z = zoomLimit

\* C25: in the revision that moves a camera, after any sequence of drags,
\* wheel turns and pinches the camera is inside its bounds, minX <= x <= maxX,
\* minY <= y <= maxY and zoomLimit <= z < 0, and a zoom out that ends at the
\* limit leaves cameraSpeed.x at initMoveFactor
C25_CameraStaysInBounds ==
    /\ CameraInBounds
    /\ ZoomOutAtLimit => cameraSpeed.x = cameraInitMoveFactor

\* a drag carried the camera against a bound of x, and a zoom out was then
\* stopped at the limit with cameraSpeed.x at initMoveFactor
C25_Witness ==
    /\ ZoomOutAtLimit
    /\ camera.x \in {minX, maxX}
    /\ cameraSpeed.x = cameraInitMoveFactor

(***************************************************************************)
(* Properties of the script's start, checked under SpecStartup.            *)
(***************************************************************************)
\* WebGL refused the context or a shader did not compile
StartupFailed ==
    \/ gl = "undefined"
    \/ vertexShader = "null"
    \/ fragmentShader = "null"

\* C21: if the context is refused or a shader fails to compile, an alert has
\* been shown and the startup does not complete: the script never gets to
\* register its listeners, no frame is drawn and no handler runs, so the
\* view state stays as constructed.
C21_FailedStartupAborts ==
    StartupFailed =>
        /\ alerts >= 1
        /\ stage \notin {"programInfo", "listening"}
        /\ ~loaded
        /\ ~drew
        /\ NeverDrawn
        /\ events = 0
        /\ view = InitialView

\* the fragment shader did not compile and the script has stopped
C21_Witness ==
    /\ gl = "context"
    /\ vertexShader = "shader"
    /\ fragmentShader = "null"
    /\ alerts = 1
    /\ stage = "aborted"
    /\ NeverDrawn

=============================================================================
